---- MODULE Spec2Model ----
(***************************************************************************)
(* State-machine model of the JSON flow-start logger                       *)
(* (src/src/output-json-flowstart.c): the condition callback, the two      *)
(* output-context constructors and destructors, the per-thread state and   *)
(* the logger callback.                                                    *)
(***************************************************************************)
EXTENDS Integers, Sequences, FiniteSets, TLC

NULL == "NULL"

(***************************************************************************)
(* Bounds of the model.                                                    *)
(***************************************************************************)
\* packets the host delivers on one flow
MaxPkts == 3
\* records serialized by all workers together
MaxEvents == 2

Flows == {"F", "G"}
Workers == {"w1", "w2"}
Variants == {"sa", "sub"}
Dirs == {"todst", "tosrc"}

(***************************************************************************)
(* Program constants.                                                      *)
(***************************************************************************)
OUTPUT_BUFFER_SIZE == 65535
TM_ECODE_OK == 0
TM_ECODE_FAILED == 1
\* serialized sizes of a record: one that fits the initial buffer, one that
\* fills it and forces an expansion
EventSizes == {100, OUTPUT_BUFFER_SIZE}
\* counter values a packet's flow is probed with
CounterSamples == {0, 1, 2, 3, 4, 5}

VARIABLES
    \* ---- condition callback and the host's packet delivery
    engineInline,   \* EngineModeIsIPS()
    flow,           \* flow -> [todstpktcnt, tosrcpktcnt]
    seen,           \* flow -> packets delivered on it so far
    hits,           \* flow -> indices of the packets that satisfied the condition
    pkt,            \* the packet last handed to the condition callback
    cond,           \* what the callback returned for it
    \* ---- contexts, threads, sink
    phase,          \* host: "startup", "running", "shutdown"
    heap,           \* object -> "none" | "live" | "freed"
    faults,         \* invalid frees and uses of freed objects seen so far
    fctx,           \* variant -> JsonFlowstartOutputCtx contents
    octx,           \* variant -> OutputCtx contents
    initRet,        \* variant -> what its constructor returned
    wstate,         \* worker -> "new", "up", "failed", "down" (the host's view)
    thread,         \* worker -> JsonFlowstartLogThread contents
    membuf,         \* worker -> MemBuffer contents
    data,           \* worker -> the *data pointer ThreadInit published
    touched,        \* object -> the workers that accessed it (read, wrote or freed)
    sink,           \* sink -> the records written to it, in order
    nev,            \* records serialized so far
    last            \* the call that ran last, its inputs and its result

condVars == <<engineInline, flow, seen, hits, pkt, cond>>
lifeVars == <<phase, heap, faults, fctx, octx, initRet, wstate, thread, membuf, data,
              touched, sink, nev, last>>
vars == <<engineInline, flow, seen, hits, pkt, cond,
          phase, heap, faults, fctx, octx, initRet, wstate, thread, membuf, data,
          touched, sink, nev, last>>

(***************************************************************************)
(* The condition callback.                                                 *)
(***************************************************************************)
\* What the callback reads of a packet: its pseudo flag, its flow pointer
\* (NULL: no flow) and, through that pointer, the flow's two packet counters.
PacketView(pseudo, f, todst, tosrc) ==
    [pseudo |-> pseudo, flow |-> f, todstpktcnt |-> todst, tosrcpktcnt |-> tosrc]

\* the packets the callback is probed with
Packets ==
    {PacketView(ps, NULL, 0, 0) : ps \in BOOLEAN} \cup
    {PacketView(ps, "P", c[1], c[2]) : ps \in BOOLEAN, c \in CounterSamples \X CounterSamples}

\* EngineModeIsIPS(): the process-wide engine mode
EngineModeIsIPS == engineInline

\* PKT_IS_PSEUDOPKT(p)
PKT_IS_PSEUDOPKT(p) == p.pseudo

\* p->flow->todstpktcnt + p->flow->tosrcpktcnt.  The counters' type is declared
\* with the flow structure, outside this file; the values modelled stay far
\* below any counter width.
CounterSum(p) == p.todstpktcnt + p.tosrcpktcnt

\* the same callback with the pseudo-packet test left out
JsonFlowstartLogCondition_NoPseudoTest(p) ==
    IF ~EngineModeIsIPS THEN FALSE
    ELSE IF p.flow = NULL THEN FALSE
    ELSE IF CounterSum(p) = 1 THEN TRUE
    ELSE FALSE

\* the same callback firing on every counted packet, not only on the first
JsonFlowstartLogCondition_AnyCount(p) ==
    IF ~EngineModeIsIPS THEN FALSE
    ELSE IF PKT_IS_PSEUDOPKT(p) THEN FALSE
    ELSE IF p.flow = NULL THEN FALSE
    ELSE IF CounterSum(p) >= 1 THEN TRUE
    ELSE FALSE

JsonFlowstartLogCondition(p) ==
    IF ~EngineModeIsIPS THEN FALSE
    ELSE IF PKT_IS_PSEUDOPKT(p) THEN FALSE
    ELSE IF p.flow = NULL THEN FALSE
    ELSE IF CounterSum(p) = 1 THEN TRUE
    ELSE FALSE

(***************************************************************************)
(* The host delivering packets: the flow tracker counts the packet into    *)
(* one direction of its flow, then the condition callback is evaluated.    *)
(***************************************************************************)
\* the flow tracker's update for a packet of direction dir
FlowUpdate(f, dir) ==
    IF dir = "todst"
    THEN [f EXCEPT !.todstpktcnt = @ + 1]
    ELSE [f EXCEPT !.tosrcpktcnt = @ + 1]

\* seen[f]: the pseudo flags of the packets delivered on f, in order
Deliver(f, dir, pseudo) ==
    /\ Len(seen[f]) < MaxPkts
    /\ LET fl == FlowUpdate(flow[f], dir)
           p == PacketView(pseudo, f, fl.todstpktcnt, fl.tosrcpktcnt)
           r == JsonFlowstartLogCondition(p)
       IN /\ flow' = [flow EXCEPT ![f] = fl]
          /\ seen' = [seen EXCEPT ![f] = Append(@, pseudo)]
          /\ hits' = [hits EXCEPT ![f] = IF r THEN @ \cup {Len(seen[f]) + 1} ELSE @]
          /\ pkt' = p
          /\ cond' = r
    /\ UNCHANGED engineInline
    /\ UNCHANGED lifeVars

\* the callback applied to an arbitrary packet
Probe(p) ==
    /\ pkt' = p
    /\ cond' = JsonFlowstartLogCondition(p)
    /\ UNCHANGED <<engineInline, flow, seen, hits>>
    /\ UNCHANGED lifeVars

(***************************************************************************)
(* Memory.  Every allocation of the module is an object of the heap; a     *)
(* free of an object that is not live, or a use of one, is recorded.       *)
(***************************************************************************)
FctxObj(v) == <<"fctx", v>>      \* a JsonFlowstartOutputCtx
OctxObj(v) == <<"octx", v>>      \* an OutputCtx
FileObj(o) == <<"file", o>>      \* a LogFileCtx: the sink of owner o
AftObj(w) == <<"aft", w>>        \* a JsonFlowstartLogThread
BufObj(w) == <<"buf", w>>        \* a MemBuffer

Sinks == {FileObj("sa"), FileObj("parent")}
ThreadObjects == {AftObj(w) : w \in Workers} \cup {BufObj(w) : w \in Workers}
Objects ==
    {FctxObj(v) : v \in Variants} \cup {OctxObj(v) : v \in Variants} \cup
    {OctxObj("parent")} \cup Sinks \cup ThreadObjects

\* a memory state: the heap and the faults recorded so far
Mem(h, fl) == [heap |-> h, faults |-> fl]

\* SCMalloc / SCCalloc of object o, succeeding
Alloc(m, o) == Mem([m.heap EXCEPT ![o] = "live"], m.faults)

\* SCFree(o)
SCFree(m, o) ==
    Mem([m.heap EXCEPT ![o] = "freed"],
        m.faults \cup (IF m.heap[o] = "live" THEN {} ELSE {<<"invalid free", o>>}))

\* a read or write of object o
Use(m, o) ==
    Mem(m.heap, m.faults \cup (IF m.heap[o] = "live" THEN {} ELSE {<<"invalid use", o>>}))

\* LogFileFreeCtx(file_ctx): destroys the sink
LogFileFreeCtx(m, s) == SCFree(m, s)

(***************************************************************************)
(* Output contexts: construction and destruction.                          *)
(***************************************************************************)
\* the same cleanup, leaving the sink alone
JsonFlowstartOutputCtxFree_KeepSink(m, fc, flowstart_ctx) ==
    IF flowstart_ctx # NULL
    THEN SCFree(Use(m, FctxObj(flowstart_ctx)), FctxObj(flowstart_ctx))
    ELSE m

\* m: memory; fc: the JsonFlowstartOutputCtx contents; flowstart_ctx: NULL or
\* the variant whose struct is pointed to.  A file_ctx pointer is NULL or the
\* owner ("sa", "parent") of the LogFileCtx it points to.  The struct is read
\* (flowstart_ctx->file_ctx) before anything is freed.
JsonFlowstartOutputCtxFree(m, fc, flowstart_ctx) ==
    IF flowstart_ctx # NULL
    THEN LET m0 == Use(m, FctxObj(flowstart_ctx))
             m1 == IF fc[flowstart_ctx].file_ctx # NULL
                   THEN LogFileFreeCtx(m0, FileObj(fc[flowstart_ctx].file_ctx))
                   ELSE m0
         IN SCFree(m1, FctxObj(flowstart_ctx))
    ELSE m

\* the value a constructor hands back: the new memory, the contents of the two
\* structs and the returned OutputCtx pointer (NULL, or the variant's)
CtxResult(m, fc, oc, ret) == [mem |-> m, fc |-> fc, oc |-> oc, ret |-> ret]

ZeroFctx == [file_ctx |-> NULL]
ZeroOctx == [data |-> NULL, DeInit |-> NULL]

\* okCtx, okFile, okOpen, okOut: whether SCCalloc of the context, LogFileNewCtx,
\* SCConfLogOpenGeneric and SCCalloc of the OutputCtx succeed
JsonFlowstartLogInitCtx(m, fc, oc, okCtx, okFile, okOpen, okOut) ==
    IF ~okCtx THEN CtxResult(m, fc, oc, NULL)
    ELSE
    LET m1 == Alloc(m, FctxObj("sa"))
        fc1 == [fc EXCEPT !["sa"] = ZeroFctx]
    IN IF ~okFile
       THEN CtxResult(JsonFlowstartOutputCtxFree(m1, fc1, "sa"), fc1, oc, NULL)
       ELSE
       LET m2 == Alloc(m1, FileObj("sa"))
           fc2 == [fc1 EXCEPT !["sa"].file_ctx = "sa"]
       IN IF ~okOpen
          THEN CtxResult(JsonFlowstartOutputCtxFree(m2, fc2, "sa"), fc2, oc, NULL)
          ELSE IF ~okOut
          THEN CtxResult(JsonFlowstartOutputCtxFree(m2, fc2, "sa"), fc2, oc, NULL)
          ELSE CtxResult(Alloc(m2, OctxObj("sa")), fc2,
                         [oc EXCEPT !["sa"] = [data |-> "sa",
                                               DeInit |-> "JsonFlowstartLogDeInitCtx"]],
                         "sa")

\* the same constructor copying the parent's sink reference before the
\* OutputCtx is allocated
JsonFlowstartLogInitCtxSub_EarlyCopy(m, fc, oc, parentFile, okCtx, okOut) ==
    LET m0 == Use(m, OctxObj("parent"))
    IN
    IF ~okCtx THEN CtxResult(m0, fc, oc, NULL)
    ELSE
    LET m1 == Alloc(m0, FctxObj("sub"))
        fc1 == [fc EXCEPT !["sub"] = [file_ctx |-> parentFile]]
    IN IF ~okOut
       THEN CtxResult(JsonFlowstartOutputCtxFree(m1, fc1, "sub"), fc1, oc, NULL)
       ELSE CtxResult(Alloc(m1, OctxObj("sub")), fc1,
                      [oc EXCEPT !["sub"] = [data |-> "sub",
                                             DeInit |-> "JsonFlowstartLogDeInitCtxSub"]],
                      "sub")

\* parentFile: ojc->file_ctx of the parent context.  parent_ctx->data is read
\* first, before any allocation, on every path.
JsonFlowstartLogInitCtxSub(m, fc, oc, parentFile, okCtx, okOut) ==
    LET m0 == Use(m, OctxObj("parent"))
    IN
    IF ~okCtx THEN CtxResult(m0, fc, oc, NULL)
    ELSE
    LET m1 == Alloc(m0, FctxObj("sub"))
        fc1 == [fc EXCEPT !["sub"] = ZeroFctx]
    IN IF ~okOut
       THEN CtxResult(JsonFlowstartOutputCtxFree(m1, fc1, "sub"), fc1, oc, NULL)
       ELSE CtxResult(Alloc(m1, OctxObj("sub")),
                      [fc1 EXCEPT !["sub"].file_ctx = parentFile],
                      [oc EXCEPT !["sub"] = [data |-> "sub",
                                             DeInit |-> "JsonFlowstartLogDeInitCtxSub"]],
                      "sub")

\* output_ctx: the variant whose OutputCtx is destroyed
JsonFlowstartLogDeInitCtx(m, fc, oc, output_ctx) ==
    LET flowstart_ctx == oc[output_ctx].data
        m1 == JsonFlowstartOutputCtxFree(Use(m, OctxObj(output_ctx)), fc, flowstart_ctx)
    IN SCFree(m1, OctxObj(output_ctx))

\* the same destructor going through the owning cleanup
JsonFlowstartLogDeInitCtxSub_Owning(m, fc, oc, output_ctx) ==
    LET flowstart_ctx == oc[output_ctx].data
        m1 == JsonFlowstartOutputCtxFree(Use(m, OctxObj(output_ctx)), fc, flowstart_ctx)
    IN SCFree(m1, OctxObj(output_ctx))

JsonFlowstartLogDeInitCtxSub(m, fc, oc, output_ctx) ==
    LET flowstart_ctx == oc[output_ctx].data
        m1 == SCFree(Use(m, OctxObj(output_ctx)), FctxObj(flowstart_ctx))
    IN SCFree(m1, OctxObj(output_ctx))

(***************************************************************************)
(* Per-thread state.                                                       *)
(***************************************************************************)
ZeroThread == [flowstart_ctx |-> NULL, buffer |-> NULL]
NoBuffer == [size |-> 0, offset |-> 0, data |-> <<>>]

\* MemBufferCreateNew(size), succeeding
MemBufferCreateNew(size) == [size |-> size, offset |-> 0, data |-> <<>>]

\* what thread init hands back: memory, the thread structs, the buffers, the
\* pointer stored through data (NULL: nothing stored) and the status
ThreadResult(m, th, mb, publish, ret) ==
    [mem |-> m, th |-> th, mb |-> mb, publish |-> publish, ret |-> ret]

\* the same init keeping the state struct when the buffer cannot be allocated
JsonFlowstartLogThreadInit_LeakOnBufferFailure(m, th, mb, oc, w, initdata, okAft, okBuf) ==
    IF ~okAft THEN ThreadResult(m, th, mb, NULL, TM_ECODE_FAILED)
    ELSE
    LET m1 == Alloc(m, AftObj(w))
        th1 == [th EXCEPT ![w] = ZeroThread]
    IN IF initdata = NULL
       THEN ThreadResult(SCFree(m1, AftObj(w)), th1, mb, NULL, TM_ECODE_FAILED)
       ELSE IF ~okBuf
       THEN ThreadResult(m1, th1, mb, NULL, TM_ECODE_FAILED)
       ELSE ThreadResult(Use(Alloc(m1, BufObj(w)), OctxObj(initdata)),
                         [th1 EXCEPT ![w] = [flowstart_ctx |-> oc[initdata].data,
                                             buffer |-> w]],
                         [mb EXCEPT ![w] = MemBufferCreateNew(OUTPUT_BUFFER_SIZE)],
                         w, TM_ECODE_OK)

\* the same init with one scratch buffer shared by every thread
JsonFlowstartLogThreadInit_SharedBuffer(m, th, mb, oc, w, initdata, okAft, okBuf) ==
    IF ~okAft THEN ThreadResult(m, th, mb, NULL, TM_ECODE_FAILED)
    ELSE
    LET m1 == Alloc(m, AftObj(w))
        th1 == [th EXCEPT ![w] = ZeroThread]
        shared == "w1"
    IN IF initdata = NULL
       THEN ThreadResult(SCFree(m1, AftObj(w)), th1, mb, NULL, TM_ECODE_FAILED)
       ELSE IF ~okBuf
       THEN ThreadResult(SCFree(m1, AftObj(w)), th1, mb, NULL, TM_ECODE_FAILED)
       ELSE ThreadResult(Use(Alloc(m1, BufObj(shared)), OctxObj(initdata)),
                         [th1 EXCEPT ![w] = [flowstart_ctx |-> oc[initdata].data,
                                             buffer |-> shared]],
                         [mb EXCEPT ![shared] = MemBufferCreateNew(OUTPUT_BUFFER_SIZE)],
                         w, TM_ECODE_OK)

\* w: the calling worker; initdata: NULL or the variant whose OutputCtx is
\* passed; okAft, okBuf: whether SCMalloc and MemBufferCreateNew succeed
JsonFlowstartLogThreadInit(m, th, mb, oc, w, initdata, okAft, okBuf) ==
    IF ~okAft THEN ThreadResult(m, th, mb, NULL, TM_ECODE_FAILED)
    ELSE
    LET m1 == Alloc(m, AftObj(w))
        th1 == [th EXCEPT ![w] = ZeroThread]
    IN IF initdata = NULL
       THEN ThreadResult(SCFree(m1, AftObj(w)), th1, mb, NULL, TM_ECODE_FAILED)
       ELSE IF ~okBuf
       THEN ThreadResult(SCFree(m1, AftObj(w)), th1, mb, NULL, TM_ECODE_FAILED)
       ELSE ThreadResult(Use(Alloc(m1, BufObj(w)), OctxObj(initdata)),
                         [th1 EXCEPT ![w] = [flowstart_ctx |-> oc[initdata].data,
                                             buffer |-> w]],
                         [mb EXCEPT ![w] = MemBufferCreateNew(OUTPUT_BUFFER_SIZE)],
                         w, TM_ECODE_OK)

\* aft: the data pointer the host passes (NULL, or the worker whose state it is)
JsonFlowstartLogThreadDeinit(m, th, mb, aft) ==
    IF aft = NULL THEN ThreadResult(m, th, mb, NULL, TM_ECODE_OK)
    ELSE
    LET m1 == SCFree(Use(m, AftObj(aft)), BufObj(th[aft].buffer))
    IN ThreadResult(SCFree(m1, AftObj(aft)),
                    [th EXCEPT ![aft] = ZeroThread], mb, NULL, TM_ECODE_OK)

(***************************************************************************)
(* Emission.                                                               *)
(***************************************************************************)
\* MemBufferReset(b): logical truncate
MemBufferReset(b) == [b EXCEPT !.offset = 0, !.data = <<>>]

\* the record of event ev, size bytes long, dumped into b at its offset; the
\* buffer is expanded by OUTPUT_BUFFER_SIZE when the record does not fit
OutputJSONMemBuffer(b, ev, size) ==
    LET b1 == IF b.offset + size >= b.size
              THEN [b EXCEPT !.size = @ + OUTPUT_BUFFER_SIZE]
              ELSE b
    IN [b1 EXCEPT !.offset = @ + size, !.data = Append(@, [ev |-> ev, len |-> size])]

\* what one emission does: memory, the buffers, the sink written to (NULL:
\* none) and the bytes handed to it, the status, the objects it accessed (the
\* thread's struct and buffer, the context struct read for its file_ctx, the
\* sink), and the scratch buffer's offset and capacity around the reset
LogResult(m, mb, file, rec, ret, used, off, cap0, cap1) ==
    [mem |-> m, mb |-> mb, file |-> file, rec |-> rec, ret |-> ret, used |-> used,
     off |-> off, cap0 |-> cap0, cap1 |-> cap1]

\* the same emission without the reset of the scratch buffer
FlowstartLogJSON_NoReset(m, th, mb, fc, aft, okHdr, size, ev) ==
    IF ~okHdr THEN LogResult(m, mb, NULL, <<>>, TM_ECODE_OK, {}, 0, 0, 0)
    ELSE
    LET buf == th[aft].buffer
        ctx == th[aft].flowstart_ctx
        file == fc[ctx].file_ctx
        b0 == mb[buf]
        b2 == OutputJSONMemBuffer(b0, ev, size)
        m1 == Use(Use(Use(Use(m, AftObj(aft)), BufObj(buf)), FctxObj(ctx)), FileObj(file))
    IN LogResult(m1, [mb EXCEPT ![buf] = b2], file, b2.data, TM_ECODE_OK,
                 {AftObj(aft), BufObj(buf), FctxObj(ctx), FileObj(file)},
                 b0.offset, b0.size, b0.size)

\* the same emission resetting the scratch buffer before the header is built
FlowstartLogJSON_ResetFirst(m, th, mb, fc, aft, okHdr, size, ev) ==
    LET buf == th[aft].buffer
        ctx == th[aft].flowstart_ctx
        file == fc[ctx].file_ctx
        b0 == mb[buf]
        b1 == MemBufferReset(b0)
        b2 == OutputJSONMemBuffer(b1, ev, size)
        m1 == Use(Use(Use(Use(m, AftObj(aft)), BufObj(buf)), FctxObj(ctx)), FileObj(file))
    IN IF ~okHdr
       THEN LogResult(Use(Use(m, AftObj(aft)), BufObj(buf)), [mb EXCEPT ![buf] = b1],
                      NULL, <<>>, TM_ECODE_OK, {AftObj(aft), BufObj(buf)}, 0, 0, 0)
       ELSE LogResult(m1, [mb EXCEPT ![buf] = b2], file, b2.data, TM_ECODE_OK,
                      {AftObj(aft), BufObj(buf), FctxObj(ctx), FileObj(file)},
                      b1.offset, b0.size, b1.size)

\* aft: the thread state; okHdr: whether CreateJSONHeader returns a header;
\* size: the serialized size of the record (with the in_dev field, when the
\* build and the packet give one); ev: the event's number
FlowstartLogJSON(m, th, mb, fc, aft, okHdr, size, ev) ==
    IF ~okHdr THEN LogResult(m, mb, NULL, <<>>, TM_ECODE_OK, {}, 0, 0, 0)
    ELSE
    LET buf == th[aft].buffer
        ctx == th[aft].flowstart_ctx
        file == fc[ctx].file_ctx
        b0 == mb[buf]
        b1 == MemBufferReset(b0)
        b2 == OutputJSONMemBuffer(b1, ev, size)
        m1 == Use(Use(Use(Use(m, AftObj(aft)), BufObj(buf)), FctxObj(ctx)), FileObj(file))
    IN LogResult(m1, [mb EXCEPT ![buf] = b2], file, b2.data, TM_ECODE_OK,
                 {AftObj(aft), BufObj(buf), FctxObj(ctx), FileObj(file)},
                 b1.offset, b0.size, b1.size)

\* the status JsonFlowstartLogger makes of FlowstartLogJSON's
JsonFlowstartLoggerStatus(r) == IF r < 0 THEN -1 ELSE 0

(***************************************************************************)
(* The operations, as the host calls them.                                 *)
(***************************************************************************)
TouchedBy(t, objs, w) ==
    [o \in Objects |-> IF o \in objs THEN t[o] \cup {w} ELSE t[o]]

\* the host builds the standalone module's context
InitCtx(okCtx, okFile, okOpen, okOut) ==
    /\ phase = "startup"
    /\ initRet["sa"] = "unset"
    /\ LET r == JsonFlowstartLogInitCtx(Mem(heap, faults), fctx, octx,
                                        okCtx, okFile, okOpen, okOut)
       IN /\ heap' = r.mem.heap
          /\ faults' = r.mem.faults
          /\ fctx' = r.fc
          /\ octx' = r.oc
          /\ initRet' = [initRet EXCEPT !["sa"] = r.ret]
          /\ last' = [op |-> "InitCtx", ret |-> r.ret,
                      ok |-> okCtx /\ okFile /\ okOpen /\ okOut]
    /\ UNCHANGED <<phase, wstate, thread, membuf, data, touched, sink, nev>>
    /\ UNCHANGED condVars

\* the host builds the sub-module's context under the live parent
InitCtxSub(okCtx, okOut) ==
    /\ phase = "startup"
    /\ initRet["sub"] = "unset"
    /\ LET r == JsonFlowstartLogInitCtxSub(Mem(heap, faults), fctx, octx, "parent",
                                           okCtx, okOut)
       IN /\ heap' = r.mem.heap
          /\ faults' = r.mem.faults
          /\ fctx' = r.fc
          /\ octx' = r.oc
          /\ initRet' = [initRet EXCEPT !["sub"] = r.ret]
          /\ last' = [op |-> "InitCtxSub", ret |-> r.ret, ok |-> okCtx /\ okOut]
    /\ UNCHANGED <<phase, wstate, thread, membuf, data, touched, sink, nev>>
    /\ UNCHANGED condVars

\* the host starts the workers; later it stops delivering packets
HostStart ==
    /\ phase = "startup"
    /\ phase' = "running"
    /\ last' = [op |-> "HostStart"]
    /\ UNCHANGED <<heap, faults, fctx, octx, initRet, wstate, thread, membuf, data,
                   touched, sink, nev>>
    /\ UNCHANGED condVars

HostStop ==
    /\ phase = "running"
    /\ phase' = "shutdown"
    /\ last' = [op |-> "HostStop"]
    /\ UNCHANGED <<heap, faults, fctx, octx, initRet, wstate, thread, membuf, data,
                   touched, sink, nev>>
    /\ UNCHANGED condVars

\* the host invokes output_ctx->DeInit(output_ctx), once, at shutdown
DeInit(v) ==
    /\ phase = "shutdown"
    /\ initRet[v] = v
    /\ heap[OctxObj(v)] = "live"
    /\ LET m == IF octx[v].DeInit = "JsonFlowstartLogDeInitCtx"
                THEN JsonFlowstartLogDeInitCtx(Mem(heap, faults), fctx, octx, v)
                ELSE JsonFlowstartLogDeInitCtxSub(Mem(heap, faults), fctx, octx, v)
       IN /\ heap' = m.heap
          /\ faults' = m.faults
    /\ last' = [op |-> "DeInit", v |-> v]
    /\ UNCHANGED <<phase, fctx, octx, initRet, wstate, thread, membuf, data,
                   touched, sink, nev>>
    /\ UNCHANGED condVars

\* the parent multiplexing output is destroyed: it owns the shared sink
ParentDeInit ==
    /\ phase = "shutdown"
    /\ heap[OctxObj("parent")] = "live"
    /\ LET m == SCFree(LogFileFreeCtx(Mem(heap, faults), FileObj("parent")),
                       OctxObj("parent"))
       IN /\ heap' = m.heap
          /\ faults' = m.faults
    /\ last' = [op |-> "ParentDeInit"]
    /\ UNCHANGED <<phase, fctx, octx, initRet, wstate, thread, membuf, data,
                   touched, sink, nev>>
    /\ UNCHANGED condVars

\* a worker starts: the host passes it one module's OutputCtx, or NULL.  The
\* worker accesses its state struct once it is allocated (memset, free), on the
\* failure paths too, and, when init succeeds, its buffer and the OutputCtx it
\* reads the context pointer from (initdata->data)
ThreadInit(w, initdata, okAft, okBuf) ==
    /\ phase = "running"
    /\ wstate[w] = "new"
    /\ initdata # NULL => initRet[initdata] = initdata
    /\ LET r == JsonFlowstartLogThreadInit(Mem(heap, faults), thread, membuf, octx,
                                           w, initdata, okAft, okBuf)
       IN /\ heap' = r.mem.heap
          /\ faults' = r.mem.faults
          /\ thread' = r.th
          /\ membuf' = r.mb
          /\ data' = IF r.publish # NULL THEN [data EXCEPT ![w] = r.publish] ELSE data
          /\ wstate' = [wstate EXCEPT ![w] = IF r.ret = TM_ECODE_OK THEN "up" ELSE "failed"]
          /\ touched' = TouchedBy(touched,
                                  (IF okAft THEN {AftObj(w)} ELSE {}) \cup
                                  (IF r.ret = TM_ECODE_OK
                                   THEN {BufObj(r.th[w].buffer), OctxObj(initdata)}
                                   ELSE {}),
                                  w)
          /\ last' = [op |-> "ThreadInit", w |-> w, initdata |-> initdata,
                      okAft |-> okAft, okBuf |-> okBuf, ret |-> r.ret]
    /\ UNCHANGED <<phase, fctx, octx, initRet, sink, nev>>
    /\ UNCHANGED condVars

\* a worker exits: the host passes back the pointer thread init stored
ThreadDeinit(w) ==
    /\ phase \in {"running", "shutdown"}
    /\ wstate[w] \in {"up", "failed"}
    /\ LET r == JsonFlowstartLogThreadDeinit(Mem(heap, faults), thread, membuf, data[w])
       IN /\ heap' = r.mem.heap
          /\ faults' = r.mem.faults
          /\ thread' = r.th
          /\ membuf' = r.mb
          /\ touched' = IF data[w] # NULL
                        THEN TouchedBy(touched,
                                       {AftObj(data[w]), BufObj(thread[data[w]].buffer)}, w)
                        ELSE touched
          /\ last' = [op |-> "ThreadDeinit", w |-> w, ret |-> r.ret]
    /\ wstate' = [wstate EXCEPT ![w] = "down"]
    /\ UNCHANGED <<phase, fctx, octx, initRet, data, sink, nev>>
    /\ UNCHANGED condVars

\* a worker logs a packet that satisfied the condition.  okWrite: whether the
\* sink's write of the serialized record succeeds
JsonFlowstartLogger(w, okHdr, size, okWrite) ==
    /\ phase = "running"
    /\ wstate[w] = "up"
    /\ okHdr => nev < MaxEvents
    /\ LET r == FlowstartLogJSON(Mem(heap, faults), thread, membuf, fctx, data[w],
                                 okHdr, size, nev + 1)
       IN /\ heap' = r.mem.heap
          /\ faults' = r.mem.faults
          /\ membuf' = r.mb
          /\ touched' = TouchedBy(touched, r.used, w)
          /\ sink' = IF r.file # NULL /\ okWrite
                     THEN [sink EXCEPT ![r.file] = Append(@, r.rec)]
                     ELSE sink
          /\ nev' = IF r.file # NULL THEN nev + 1 ELSE nev
          /\ last' = [op |-> "Logger", w |-> w, okHdr |-> okHdr,
                      size |-> IF okHdr THEN size ELSE 0,
                      okWrite |-> ~okHdr \/ okWrite,
                      file |-> r.file, off |-> r.off, cap0 |-> r.cap0, cap1 |-> r.cap1,
                      ret |-> JsonFlowstartLoggerStatus(r.ret)]
    /\ UNCHANGED <<phase, fctx, octx, initRet, wstate, thread, data>>
    /\ UNCHANGED condVars

(***************************************************************************)
(* Specifications.                                                         *)
(***************************************************************************)
LifeInit ==
    /\ phase = "startup"
    /\ heap = [o \in Objects |->
                 IF o \in {FileObj("parent"), OctxObj("parent")} THEN "live" ELSE "none"]
    /\ faults = {}
    /\ fctx = [v \in Variants |-> ZeroFctx]
    /\ octx = [v \in Variants |-> ZeroOctx]
    /\ initRet = [v \in Variants |-> "unset"]
    /\ wstate = [w \in Workers |-> "new"]
    /\ thread = [w \in Workers |-> ZeroThread]
    /\ membuf = [w \in Workers |-> NoBuffer]
    /\ data = [w \in Workers |-> NULL]
    /\ touched = [o \in Objects |-> {}]
    /\ sink = [s \in {"sa", "parent"} |-> <<>>]
    /\ nev = 0
    /\ last = [op |-> "none"]

CondInit ==
    /\ flow = [f \in Flows |-> [todstpktcnt |-> 0, tosrcpktcnt |-> 0]]
    /\ seen = [f \in Flows |-> <<>>]
    /\ hits = [f \in Flows |-> {}]
    /\ pkt = PacketView(FALSE, NULL, 0, 0)
    /\ cond = FALSE

\* contexts, threads and emission, the engine inline
Init ==
    /\ engineInline = TRUE
    /\ CondInit
    /\ LifeInit

Next ==
    \/ \E okCtx, okFile, okOpen, okOut \in BOOLEAN : InitCtx(okCtx, okFile, okOpen, okOut)
    \/ \E okCtx, okOut \in BOOLEAN : InitCtxSub(okCtx, okOut)
    \/ HostStart
    \/ HostStop
    \/ \E v \in Variants : DeInit(v)
    \/ ParentDeInit
    \/ \E w \in Workers, initdata \in Variants \cup {NULL}, okAft, okBuf \in BOOLEAN :
          ThreadInit(w, initdata, okAft, okBuf)
    \/ \E w \in Workers : ThreadDeinit(w)
    \/ \E w \in Workers, okHdr \in BOOLEAN, size \in EventSizes, okWrite \in BOOLEAN :
          JsonFlowstartLogger(w, okHdr, size, okWrite)

Spec == Init /\ [][Next]_vars

\* packets delivered on flows, in either engine mode
InitCond ==
    /\ engineInline \in BOOLEAN
    /\ CondInit
    /\ LifeInit

NextCond == \E f \in Flows, dir \in Dirs, pseudo \in BOOLEAN : Deliver(f, dir, pseudo)

SpecCond == InitCond /\ [][NextCond]_vars

\* the condition callback on arbitrary packets, in either engine mode
NextProbe == \E p \in Packets : Probe(p)

SpecProbe == InitCond /\ [][NextProbe]_vars

(***************************************************************************)
(* Properties.                                                             *)
(***************************************************************************)
NotLive(o) == heap[o] # "live"

\* C1: the condition callback returns TRUE exactly when the engine is inline,
\* the packet is not a pseudo packet, it has a flow, and the flow's two packet
\* counters add up to 1; in every other case it returns FALSE.
C1_ConditionIffAllFour ==
    cond = (/\ engineInline
            /\ ~pkt.pseudo
            /\ pkt.flow # NULL
            /\ pkt.todstpktcnt + pkt.tosrcpktcnt = 1)

\* a real packet with a flow of total 1, inline: the callback said TRUE
C1_Witness ==
    /\ engineInline
    /\ ~pkt.pseudo
    /\ pkt.flow # NULL
    /\ pkt.todstpktcnt = 0
    /\ pkt.tosrcpktcnt = 1
    /\ cond

\* C2, as stated: once a flow has carried a packet, exactly one of its
\* packets has satisfied the condition, the first.
C2_ExactlyOneFirstPacket ==
    \A f \in Flows : Len(seen[f]) >= 1 => hits[f] = {1}

\* C2, amended: no packet of a flow but the first ever satisfies the
\* condition, and the first does exactly when the engine is inline and that
\* packet is not a pseudo packet.
C2_OnlyFirstPacketWhenInline ==
    \A f \in Flows :
        /\ hits[f] \subseteq {1}
        /\ Len(seen[f]) >= 1 => ((1 \in hits[f]) <=> (engineInline /\ ~seen[f][1]))

\* the second packet of a flow (toDst = 1, toSrc = 1) after a first that fired
C2_Witness ==
    \E f \in Flows :
        /\ Len(seen[f]) = 2
        /\ flow[f].todstpktcnt = 1
        /\ flow[f].tosrcpktcnt = 1
        /\ pkt.flow = f
        /\ hits[f] = {1}
        /\ ~cond

\* C3: no object is freed twice or used after its free; a destroyed
\* standalone context has destroyed its sink; the parent's sink is freed by
\* the parent's destructor only, whatever the order of the destructors.
C3_SinkFreedOnceByOwner ==
    /\ faults = {}
    /\ (initRet["sa"] = "sa" /\ heap[OctxObj("sa")] = "freed")
          => heap[FileObj("sa")] = "freed"
    /\ heap[FileObj("parent")] = "freed" => heap[OctxObj("parent")] = "freed"
    /\ (initRet["sub"] = "sub" /\ heap[OctxObj("sub")] = "freed")
          => heap[FctxObj("sub")] = "freed"

\* both contexts destroyed, the sub-module's before its parent
C3_Witness ==
    /\ last.op = "ParentDeInit"
    /\ initRet["sub"] = "sub"
    /\ heap[OctxObj("sub")] = "freed"
    /\ initRet["sa"] = "sa"
    /\ heap[FileObj("sa")] = "freed"
    /\ heap[FileObj("parent")] = "freed"

\* C4: the logging call returns 0, unless the sink's write of the serialized
\* record failed, and then it returns a negative status.
C4_WriteFailurePropagated ==
    last.op = "Logger" =>
        IF last.okHdr /\ ~last.okWrite THEN last.ret < 0 ELSE last.ret = 0

\* C5: a logging call whose header construction fails returns 0 and changes
\* nothing: not the sink, not the scratch buffer, not the thread's context
\* reference, nor any other state a later emission reads.
C5_HeaderFailureIsSilent ==
    [][(last'.op = "Logger" /\ ~last'.okHdr) =>
          /\ last'.ret = 0
          /\ UNCHANGED <<phase, heap, faults, fctx, octx, initRet, wstate, thread,
                         membuf, data, touched, sink, nev>>]_vars

\* a failed header on a thread whose scratch buffer still holds the record of
\* an earlier event
C5_Witness ==
    /\ last.op = "Logger"
    /\ ~last.okHdr
    /\ last.ret = 0
    /\ membuf[data[last.w]].offset > 0
    /\ nev > 0

\* C6: at the moment a record is serialized the scratch buffer has offset 0
\* and the capacity it had before the reset; every write to a sink holds the
\* bytes of one event only.
C6_ScratchEmptyAtSerialization ==
    /\ (last.op = "Logger" /\ last.okHdr) =>
          /\ last.off = 0
          /\ last.cap1 = last.cap0
    /\ \A s \in DOMAIN sink : \A i \in 1..Len(sink[s]) :
          /\ Len(sink[s][i]) = 1
          /\ sink[s][i][1].len \in EventSizes
    /\ \A w \in Workers : Len(membuf[w].data) <= 1

\* a second record serialized through a buffer an earlier, larger event expanded
C6_Witness ==
    /\ last.op = "Logger"
    /\ last.okHdr
    /\ last.okWrite
    /\ last.cap0 > OUTPUT_BUFFER_SIZE
    /\ last.size < OUTPUT_BUFFER_SIZE
    /\ Len(sink[last.file]) = 2

\* C7: the standalone constructor returns NULL exactly when one of its four
\* steps fails, and after a failure the context struct, the sink and the
\* OutputCtx are not allocated and nothing was freed twice.
C7_FailedInitCtxReleasesAll ==
    /\ last.op = "InitCtx" => (last.ret = NULL <=> ~last.ok)
    /\ initRet["sa"] = NULL =>
          /\ NotLive(FctxObj("sa"))
          /\ NotLive(FileObj("sa"))
          /\ NotLive(OctxObj("sa"))
          /\ faults = {}

\* a construction that failed after its sink was allocated
C7_Witness ==
    /\ last.op = "InitCtx"
    /\ initRet["sa"] = NULL
    /\ heap[FileObj("sa")] = "freed"
    /\ heap[FctxObj("sa")] = "freed"

\* C8: thread init returns OK exactly when the handle is non-null and both
\* allocations succeed; then the state holds the context reference and a
\* fresh buffer of OUTPUT_BUFFER_SIZE; otherwise it returns FAILED, leaves
\* nothing allocated and stores no state pointer.
C8_ThreadInitAllOrNothing ==
    last.op = "ThreadInit" =>
        /\ last.ret = TM_ECODE_OK <=> (last.initdata # NULL /\ last.okAft /\ last.okBuf)
        /\ last.ret = TM_ECODE_OK =>
              /\ data[last.w] = last.w
              /\ thread[last.w] = [flowstart_ctx |-> octx[last.initdata].data,
                                   buffer |-> last.w]
              /\ membuf[last.w] = [size |-> OUTPUT_BUFFER_SIZE, offset |-> 0, data |-> <<>>]
              /\ heap[AftObj(last.w)] = "live"
              /\ heap[BufObj(last.w)] = "live"
        /\ last.ret # TM_ECODE_OK =>
              /\ last.ret = TM_ECODE_FAILED
              /\ data[last.w] = NULL
              /\ NotLive(AftObj(last.w))
              /\ NotLive(BufObj(last.w))

\* a thread init that failed on the buffer, after the state was allocated
C8_Witness ==
    /\ last.op = "ThreadInit"
    /\ last.initdata # NULL
    /\ last.okAft
    /\ ~last.okBuf
    /\ last.ret = TM_ECODE_FAILED
    /\ heap[AftObj(last.w)] = "freed"

\* the objects workers share by design: the sinks, written under the sink's own
\* locking, and the context structs, which workers only read
SharedByWorkers ==
    Sinks \cup {FctxObj(v) : v \in Variants} \cup {OctxObj(v) : v \in Variants}

\* a thread's struct and buffer are accessed by their creating worker only, and
\* a constructed context keeps the contents construction gave it
ThreadStatePrivateContextReadOnly ==
    /\ \A w \in Workers :
          /\ touched[AftObj(w)] \subseteq {w}
          /\ touched[BufObj(w)] \subseteq {w}
    /\ \A v \in Variants :
          (initRet[v] = v /\ heap[FctxObj(v)] = "live") =>
              /\ fctx[v].file_ctx = (IF v = "sa" THEN "sa" ELSE "parent")
              /\ octx[v].data = v

\* C9, as stated: a thread's state struct and scratch buffer are accessed by
\* the worker that created them only, a constructed context's sink reference
\* keeps the value construction gave it, and the sink is the only object
\* accessed by more than one worker.
C9_OnlySinkShared ==
    /\ ThreadStatePrivateContextReadOnly
    /\ \A o \in Objects : Cardinality(touched[o]) > 1 => o \in Sinks

\* C9, amended: a thread's state struct and scratch buffer are accessed by the
\* worker that created them only, a constructed context's sink reference and
\* context pointer keep the values construction gave them, and the only
\* objects accessed by more than one worker are the sink and the two context
\* structs, which the workers read.
C9_ThreadStatePrivateContextReadOnly ==
    /\ ThreadStatePrivateContextReadOnly
    /\ \A o \in Objects : Cardinality(touched[o]) > 1 => o \in SharedByWorkers

\* two workers of one context, each having written a record to the one sink:
\* both accessed the sink, the context struct and its OutputCtx, each its own
\* buffer only
C9_Witness ==
    /\ \A w \in Workers :
          /\ wstate[w] = "up"
          /\ thread[w].flowstart_ctx = "sub"
          /\ membuf[w].offset > 0
          /\ touched[BufObj(w)] = {w}
          /\ touched[AftObj(w)] = {w}
    /\ Len(sink["parent"]) = 2
    /\ touched[FileObj("parent")] = Workers
    /\ touched[FctxObj("sub")] = Workers
    /\ touched[OctxObj("sub")] = Workers

\* C10: the sub-module constructor leaves the parent's sink live; when it
\* fails neither of its structs stays allocated and the struct it freed had
\* no sink reference; when it succeeds the context refers to the parent's
\* sink and its destructor is the borrowing one.
C10_InitCtxSubBorrowsSink ==
    /\ phase = "startup" => heap[FileObj("parent")] = "live"
    /\ last.op = "InitCtxSub" => (last.ret = NULL <=> ~last.ok)
    /\ initRet["sub"] = NULL =>
          /\ NotLive(FctxObj("sub"))
          /\ NotLive(OctxObj("sub"))
          /\ fctx["sub"].file_ctx = NULL
          /\ faults = {}
    /\ (initRet["sub"] = "sub" /\ heap[OctxObj("sub")] = "live") =>
          /\ octx["sub"] = [data |-> "sub", DeInit |-> "JsonFlowstartLogDeInitCtxSub"]
          /\ fctx["sub"].file_ctx = "parent"
          /\ heap[FctxObj("sub")] = "live"

\* the constructor failed on the OutputCtx, after the context struct was allocated
C10_Witness ==
    /\ last.op = "InitCtxSub"
    /\ initRet["sub"] = NULL
    /\ heap[FctxObj("sub")] = "freed"
    /\ heap[FileObj("parent")] = "live"

====
